---- MODULE Spec2Model ----
(***************************************************************************)
(* Model of the OCR extraction core of scam-detection-app                  *)
(* (ocr_utils.py, region_detect.py, urdu_support.py).                      *)
(*                                                                         *)
(* Text is a sequence of Unicode code points (ord values).  Confidences    *)
(* are integers in tenths (0.3 is 3).                                      *)
(***************************************************************************)
EXTENDS Integers, Sequences, FiniteSets, TLC

VARIABLES
    dText,      \* urdu_support: the text handed to normalize_digits
    dOut,       \* urdu_support: the text normalize_digits returned last
    dCalls      \* urdu_support: how many times normalize_digits was applied

digitVars == <<dText, dOut, dCalls>>

VARIABLES
    h_img,      \* region_detect: height of the image given to the detector
    w_img,      \* region_detect: width of the image given to the detector
    contours,   \* region_detect: bounding rectangles <<x, y, w, h>> of the
                \* contours findContours returned, in its order
    crops,      \* region_detect: the detector's result, a sequence of
                \* regions <<y0, x0, y1, x1>>
    detected    \* region_detect: whether the detector has returned

detectVars == <<h_img, w_img, contours, crops, detected>>

VARIABLES
    clean,      \* ocr_utils: the clean text the field patterns are applied to
    fields,     \* ocr_utils: extracted_fields (phones, emails, urls, amounts)
    extracted   \* ocr_utils: whether the fields of clean have been extracted

fieldVars == <<clean, fields, extracted>>

VARIABLES
    easyocr,    \* ocr_utils: whether the easyocr module was imported
    OCR_READER, \* ocr_utils: _OCR_READER, <<>> for None or <<reader>>
    built,      \* easyocr: how many Reader objects have been constructed
    grCall      \* ocr_utils: the last direct call of get_reader

readerVars == <<easyocr, OCR_READER, built, grCall>>

VARIABLES
    cv2,            \* whether the cv2 module can be imported
    pytesseract,    \* ocr_utils: whether the pytesseract module was imported
    call,           \* the arguments of the last pipeline invocation
    outcome,        \* how it ended: "return" or the exception that left it
    result,         \* the OCRResult it returned
    trace           \* what it did: the detector's answer, the regions of the
                    \* loop, the readtext calls, the recognizer of the loop,
                    \* and what the readtext calls on each region did

pipeVars == <<cv2, pytesseract, call, outcome, result, trace>>

VARIABLES
    serialized, \* whether the callers hold one mutex around each get_reader call
    pc,         \* per thread: where it is in get_reader
    tLangs,     \* per thread: the langs of its call
    tNew,       \* per thread: the Reader it has constructed and not yet stored
    tRet,       \* per thread: what its last call returned
    tCalls      \* per thread: how many calls it has begun

threadVars == <<serialized, pc, tLangs, tNew, tRet, tCalls>>

vars == <<digitVars, detectVars, fieldVars, readerVars, pipeVars, threadVars>>

\* The state of a part of the program that a specification does not exercise.
DigitsIdle == dText = <<>> /\ dOut = <<>> /\ dCalls = 0

NoFields == [phones |-> <<>>, emails |-> <<>>, urls |-> <<>>, amounts |-> <<>>]

FieldsIdle == clean = <<>> /\ fields = NoFields /\ extracted = FALSE

NoArgs ==
    [fn |-> "none", image_input |-> "none", engine |-> "none",
     min_confidence |-> 0, preprocess_func |-> "none"]

EmptyResult ==
    [detected_language |-> "None", raw_text |-> <<>>, clean_text |-> <<>>,
     lines |-> <<>>, extracted_fields |-> NoFields]

NoTrace ==
    [detected |-> FALSE, crops |-> <<>>, regions |-> <<>>, log |-> <<>>,
     reader |-> <<>>, reads |-> <<>>]

PipeIdle ==
    /\ cv2 = FALSE /\ pytesseract = FALSE /\ call = NoArgs /\ outcome = "none"
    /\ result = EmptyResult /\ trace = NoTrace

\* No call of get_reader yet.
NoCall ==
    [made |-> FALSE, langs |-> {}, before |-> <<>>, builtBefore |-> 0,
     ret |-> <<>>, raised |-> FALSE, tryFailed |-> FALSE]

ReaderIdle == easyocr = FALSE /\ OCR_READER = <<>> /\ built = 0 /\ grCall = NoCall

Threads == {1, 2}

ThreadsIdle ==
    /\ serialized = FALSE
    /\ pc = [t \in Threads |-> "idle"]
    /\ tLangs = [t \in Threads |-> {}]
    /\ tNew = [t \in Threads |-> <<>>]
    /\ tRet = [t \in Threads |-> <<>>]
    /\ tCalls = [t \in Threads |-> 0]

DetectIdle ==
    h_img = 0 /\ w_img = 0 /\ contours = <<>> /\ crops = <<>> /\ detected = FALSE

---------------------------------------------------------------------------
(* urdu_support.py : digit normalisation                                   *)

\* Code points of the Arabic-Indic digits U+0660..U+0669.
ArabicIndic == 1632..1641

\* Code points of the Extended Arabic-Indic (Urdu) digits U+06F0..U+06F9.
ExtendedArabicIndic == 1776..1785

\* Code points of the ASCII digits '0'..'9'.
AsciiDigits == 48..57

\* A table that sends the Urdu digits to their Arabic-Indic twins instead of
\* to ASCII.
ARABIC_INDIC_DIGITS_UrduToArabic ==
    [c \in ArabicIndic \cup ExtendedArabicIndic |->
        IF c \in ArabicIndic THEN 48 + (c - 1632) ELSE 1632 + (c - 1776)]

\* The translation table: each of the twenty native digits to its ASCII digit.
ARABIC_INDIC_DIGITS ==
    [c \in ArabicIndic \cup ExtendedArabicIndic |->
        IF c \in ArabicIndic THEN 48 + (c - 1632) ELSE 48 + (c - 1776)]

\* str.translate(table): a code point in the table is replaced, any other is
\* kept.
Translate(t, table) ==
    [i \in 1..Len(t) |-> IF t[i] \in DOMAIN table THEN table[t[i]] ELSE t[i]]

normalize_digits(t) == Translate(t, ARABIC_INDIC_DIGITS)

\* Longest text handed to normalize_digits.
MaxDigitText == 2

\* Most applications of normalize_digits to one text.
MaxDigitCalls == 2

\* The characters the texts are drawn from: the twenty native digits, the
\* ASCII digits 0, 5, 9, the letter A, a space and the Arabic letter alef.
DigitAlphabet ==
    ArabicIndic \cup ExtendedArabicIndic \cup {48, 53, 57, 65, 32, 1575}

DigitTexts == UNION {[1..n -> DigitAlphabet] : n \in 0..MaxDigitText}

DigitsInit ==
    /\ dText \in DigitTexts /\ dOut = dText /\ dCalls = 0
    /\ DetectIdle /\ FieldsIdle /\ ReaderIdle /\ PipeIdle /\ ThreadsIdle

\* One application of normalize_digits to the current text (the first to the
\* input, the next to what the previous one returned).
NormalizeDigits ==
    /\ dCalls < MaxDigitCalls
    /\ dOut' = normalize_digits(dOut)
    /\ dCalls' = dCalls + 1
    /\ UNCHANGED <<dText, detectVars, fieldVars, readerVars, pipeVars, threadVars>>

DigitsNext == NormalizeDigits

SpecDigits == DigitsInit /\ [][DigitsNext]_vars

---------------------------------------------------------------------------
(* region_detect.py : text-region detection                                *)

\* Default of the min_area parameter, in pixels.
MIN_AREA == 400

\* Default of the max_area_ratio parameter, 0.9, in tenths.
MAX_AREA_RATIO_TENTHS == 9

Max(a, b) == IF a >= b THEN a ELSE b

Min(a, b) == IF a <= b THEN a ELSE b

\* An area filter that has lost its upper limit.
Rejected_NoUpperLimit(c, hi, wi, min_area, ratio_tenths) ==
    c[3] * c[4] < min_area

\* area < min_area or area > w_img * h_img * max_area_ratio, on the contour's
\* bounding rectangle c = <<x, y, w, h>>.
Rejected(c, hi, wi, min_area, ratio_tenths) ==
    LET area == c[3] * c[4]
    IN  area < min_area \/ area * 10 > wi * hi * ratio_tenths

\* A padding whose clamp at the top and left edges is missing.
PadClamp_NoLowerClamp(c, hi, wi) ==
    LET x == c[1]  y == c[2]  w == c[3]  h == c[4]
        pad_x == ((w * 2) \div 100) + 2
        pad_y == ((h * 5) \div 100) + 2
    IN  <<y - pad_y, x - pad_x, Min(hi, y + h + pad_y), Min(wi, x + w + pad_x)>>

\* The padded rectangle clamped to the image: (y0, x0, y1, x1).
PadClamp(c, hi, wi) ==
    LET x == c[1]  y == c[2]  w == c[3]  h == c[4]
        pad_x == ((w * 2) \div 100) + 2
        pad_y == ((h * 5) \div 100) + 2
    IN  <<Max(0, y - pad_y), Max(0, x - pad_x),
          Min(hi, y + h + pad_y), Min(wi, x + w + pad_x)>>

\* The loop over the contours: the regions of those not rejected, in contour
\* order.
RECURSIVE Surviving(_, _, _, _, _)
Surviving(cs, hi, wi, min_area, ratio_tenths) ==
    IF cs = <<>> THEN <<>>
    ELSE LET rest == Surviving(Tail(cs), hi, wi, min_area, ratio_tenths)
         IN  IF Rejected(Head(cs), hi, wi, min_area, ratio_tenths)
             THEN rest
             ELSE <<PadClamp(Head(cs), hi, wi)>> \o rest

\* Insertion of r after every element whose key r[1] is not larger: the step
\* of a stable sort by top edge.
RECURSIVE InsertByTop(_, _)
InsertByTop(r, s) ==
    IF s = <<>> THEN <<r>>
    ELSE IF r[1] < Head(s)[1] THEN <<r>> \o s
    ELSE <<Head(s)>> \o InsertByTop(r, Tail(s))

\* sorted(regions, key=lambda r: r[0]), stable.
RECURSIVE SortByTop(_)
SortByTop(s) ==
    IF s = <<>> THEN <<>>
    ELSE InsertByTop(s[Len(s)], SortByTop(SubSeq(s, 1, Len(s) - 1)))

\* _detect_with_cv2: the crops, each named by the coordinates it was cut at.
detect_with_cv2(cs, hi, wi, min_area, ratio_tenths) ==
    SortByTop(Surviving(cs, hi, wi, min_area, ratio_tenths))

\* _detect_without_cv2.
detect_without_cv2 == <<>>

\* detect_text_regions.
detect_text_regions(has_cv2, cs, hi, wi, min_area, ratio_tenths) ==
    IF has_cv2 THEN detect_with_cv2(cs, hi, wi, min_area, ratio_tenths)
    ELSE detect_without_cv2

\* Largest side of the images whose every bounding rectangle is tried.
MaxDim == 24

\* Longest list of contours taken from the sample rectangles.
MaxContours == 2

\* The images (height, width) whose every bounding rectangle is tried.
SmallImages == {<<MaxDim, MaxDim>>, <<MaxDim, MaxDim - 4>>}

\* Every bounding rectangle <<x, y, w, h>> inside an image of hi by wi pixels.
RectsIn(hi, wi) ==
    {c \in (0..(wi - 1)) \X (0..(hi - 1)) \X (1..wi) \X (1..hi) :
        c[1] + c[3] <= wi /\ c[2] + c[4] <= hi}

\* The image (height, width) the sample rectangles lie in.
SampleImage == <<40, 60>>

\* A contour too small, one as large as the image, one low in the image with
\* room on every side but the bottom, and one wide along the top edge.
SmallRect == <<5, 5, 10, 10>>
BigRect == <<0, 0, 60, 40>>
LowRect == <<30, 18, 25, 20>>
HighRect == <<1, 2, 55, 10>>

SampleRects == {SmallRect, BigRect, LowRect, HighRect}

SampleContourLists == UNION {[1..n -> SampleRects] : n \in 0..MaxContours}

DetectInit ==
    /\ crops = <<>> /\ detected = FALSE
    /\ \/ \E im \in SmallImages :
             /\ h_img = im[1] /\ w_img = im[2]
             /\ \E c \in RectsIn(im[1], im[2]) : contours = <<c>>
       \/ /\ h_img = SampleImage[1] /\ w_img = SampleImage[2]
          /\ contours \in SampleContourLists
    /\ DigitsIdle /\ FieldsIdle /\ ReaderIdle /\ PipeIdle /\ ThreadsIdle

\* A call of detect_text_regions with the default parameters, with or without
\* the image-processing capability.
DetectTextRegions(has_cv2) ==
    /\ ~detected
    /\ crops' = detect_text_regions(has_cv2, contours, h_img, w_img,
                                    MIN_AREA, MAX_AREA_RATIO_TENTHS)
    /\ detected' = TRUE
    /\ UNCHANGED <<h_img, w_img, contours, digitVars, fieldVars, readerVars, pipeVars, threadVars>>

DetectNext == \E has_cv2 \in BOOLEAN : DetectTextRegions(has_cv2)

SpecDetect == DetectInit /\ [][DetectNext]_vars

---------------------------------------------------------------------------
(* ocr_utils.py : the field patterns (Python re, str patterns)             *)

\* The code points \d matches among those below U+0700.
ReDigit == AsciiDigits \cup ArabicIndic \cup ExtendedArabicIndic

\* The code points \s matches among those below U+0700.
ReSpace == {9, 10, 11, 12, 13, 28, 29, 30, 31, 32, 133, 160}

UpperAZ == 65..90

LowerAZ == 97..122

\* A pattern is a tree: a literal string, a repeated character class (a set
\* of code points, or the complement of one, at least lo and at most hi
\* times, hi = -1 for no limit, greedy), an optional pattern (greedy), an
\* alternation, or a concatenation.
Lit(str) == [kind |-> "lit", str |-> str]

Rep(set, lo, hi) == [kind |-> "rep", set |-> set, neg |-> FALSE, lo |-> lo, hi |-> hi]

RepNot(set, lo, hi) == [kind |-> "rep", set |-> set, neg |-> TRUE, lo |-> lo, hi |-> hi]

Opt(p) == [kind |-> "opt", sub |-> <<p>>]

Alt(ps) == [kind |-> "alt", sub |-> ps]

Cat(ps) == [kind |-> "cat", sub |-> ps]

InClass(p, c) == IF p.neg THEN c \notin p.set ELSE c \in p.set

\* How many characters of t from position i on lie in the class of p, counted
\* up to the limit of p.
RECURSIVE Run(_, _, _, _)
Run(p, t, i, n) ==
    IF i + n <= Len(t) /\ (p.hi = -1 \/ n < p.hi) /\ InClass(p, t[i + n])
    THEN Run(p, t, i, n + 1)
    ELSE n

\* <<i + n, i + n - 1, ..., i + lo>>: the ends of a greedy repetition that has
\* matched n times, the longest first.
RECURSIVE Shrinking(_, _, _)
Shrinking(i, n, lo) ==
    IF n < lo THEN <<>> ELSE <<i + n>> \o Shrinking(i, n - 1, lo)

\* The positions at which a match of pattern p that starts at position i of t
\* can end (the position after its last character), in the order in which a
\* backtracking matcher tries them.
RECURSIVE Ends(_, _, _)
RECURSIVE EndsFromAll(_, _, _)
RECURSIVE EndsOfAlt(_, _, _)
RECURSIVE EndsOfCat(_, _, _)
Ends(p, t, i) ==
    CASE p.kind = "lit" ->
            IF /\ i + Len(p.str) - 1 <= Len(t)
               /\ SubSeq(t, i, i + Len(p.str) - 1) = p.str
            THEN <<i + Len(p.str)>> ELSE <<>>
      [] p.kind = "rep" -> Shrinking(i, Run(p, t, i, 0), p.lo)
      [] p.kind = "opt" -> Ends(p.sub[1], t, i) \o <<i>>
      [] p.kind = "alt" -> EndsOfAlt(p.sub, t, i)
      [] p.kind = "cat" -> EndsOfCat(p.sub, t, <<i>>)

\* The ends of p from each of the starting positions, in their order.
EndsFromAll(p, t, starts) ==
    IF starts = <<>> THEN <<>>
    ELSE Ends(p, t, Head(starts)) \o EndsFromAll(p, t, Tail(starts))

EndsOfAlt(ps, t, i) ==
    IF ps = <<>> THEN <<>>
    ELSE Ends(Head(ps), t, i) \o EndsOfAlt(Tail(ps), t, i)

EndsOfCat(ps, t, starts) ==
    IF ps = <<>> THEN starts
    ELSE EndsOfCat(Tail(ps), t, EndsFromAll(Head(ps), t, starts))

\* A scan that does not skip the text it has matched, and so finds
\* overlapping matches.
RECURSIVE FindAllFrom_Overlapping(_, _, _)
FindAllFrom_Overlapping(p, t, i) ==
    IF i > Len(t) THEN <<>>
    ELSE LET ends == Ends(p, t, i)
         IN  IF ends = <<>> \/ Head(ends) = i
             THEN FindAllFrom_Overlapping(p, t, i + 1)
             ELSE <<SubSeq(t, i, Head(ends) - 1)>>
                      \o FindAllFrom_Overlapping(p, t, i + 1)

\* re.findall from position i on: the leftmost match, then the scan goes on
\* where that match ended.  (No pattern here matches the empty string.)
RECURSIVE FindAllFrom(_, _, _)
FindAllFrom(p, t, i) ==
    IF i > Len(t) THEN <<>>
    ELSE LET ends == Ends(p, t, i)
         IN  IF ends = <<>> \/ Head(ends) = i
             THEN FindAllFrom(p, t, i + 1)
             ELSE <<SubSeq(t, i, Head(ends) - 1)>>
                      \o FindAllFrom(p, t, Head(ends))

findall(p, t) == FindAllFrom(p, t, 1)

\* A phone pattern whose run may not hold white space.
PhonePattern_NoSpace ==
    Cat(<<Opt(Lit(<<43>>)), Rep(ReDigit, 1, 1),
          Rep(ReDigit \cup {45}, 5, -1)>>)

\* r"\+?\d[\d\s\-]{5,}"
PhonePattern ==
    Cat(<<Opt(Lit(<<43>>)), Rep(ReDigit, 1, 1),
          Rep(ReDigit \cup ReSpace \cup {45}, 5, -1)>>)

\* r"[a-zA-Z0-9._+-]+@[a-zA-Z0-9.-]+\.[a-zA-Z]{2,}"
EmailPattern ==
    Cat(<<Rep(LowerAZ \cup UpperAZ \cup AsciiDigits \cup {46, 95, 43, 45}, 1, -1),
          Lit(<<64>>),
          Rep(LowerAZ \cup UpperAZ \cup AsciiDigits \cup {46, 45}, 1, -1),
          Lit(<<46>>),
          Rep(LowerAZ \cup UpperAZ, 2, -1)>>)

\* r"[A-Za-z0-9._%+-]+@[A-Za-z0-9.-]+\.[A-Za-z]{2,}"
EmailPatternUrdu ==
    Cat(<<Rep(UpperAZ \cup LowerAZ \cup AsciiDigits \cup {46, 95, 37, 43, 45}, 1, -1),
          Lit(<<64>>),
          Rep(UpperAZ \cup LowerAZ \cup AsciiDigits \cup {46, 45}, 1, -1),
          Lit(<<46>>),
          Rep(UpperAZ \cup LowerAZ, 2, -1)>>)

\* r"(https?://\S+|www\.\S+)"
UrlPattern ==
    Alt(<<Cat(<<Lit(<<104, 116, 116, 112>>), Opt(Lit(<<115>>)),
                Lit(<<58, 47, 47>>), RepNot(ReSpace, 1, -1)>>),
          Cat(<<Lit(<<119, 119, 119, 46>>), RepNot(ReSpace, 1, -1)>>)>>)

\* r"(?:Rs\.?|INR|\$)\s?\d[\d,]*"
AmountPattern ==
    Cat(<<Alt(<<Cat(<<Lit(<<82, 115>>), Opt(Lit(<<46>>))>>),
                Lit(<<73, 78, 82>>), Lit(<<36>>)>>),
          Rep(ReSpace, 0, 1), Rep(ReDigit, 1, 1), Rep(ReDigit \cup {44}, 0, -1)>>)

\* The four findall calls of a pipeline on its clean text; urdu tells the
\* e-mail pattern of extract_text_with_urdu_support from that of the other
\* two pipelines.
extract_fields(t, urdu) ==
    [phones  |-> findall(PhonePattern, t),
     emails  |-> findall(IF urdu THEN EmailPatternUrdu ELSE EmailPattern, t),
     urls    |-> findall(UrlPattern, t),
     amounts |-> findall(AmountPattern, t)]

\* "Call +92 300 1234567 or email scam@fraud.com, send Rs. 5,000 via
\* www.fakepay.com"
ScenarioText ==
    <<67, 97, 108, 108, 32, 43, 57, 50, 32, 51, 48, 48, 32, 49, 50, 51, 52,
      53, 54, 55, 32, 111, 114, 32, 101, 109, 97, 105, 108, 32, 115, 99, 97,
      109, 64, 102, 114, 97, 117, 100, 46, 99, 111, 109, 44, 32, 115, 101,
      110, 100, 32, 82, 115, 46, 32, 53, 44, 48, 48, 48, 32, 118, 105, 97,
      32, 119, 119, 119, 46, 102, 97, 107, 101, 112, 97, 121, 46, 99, 111,
      109>>

\* The clean texts tried: every piece of the scenario text that starts at its
\* first character or ends at its last.
FieldTexts ==
    {SubSeq(ScenarioText, 1, n) : n \in 0..Len(ScenarioText)} \cup
    {SubSeq(ScenarioText, n, Len(ScenarioText)) : n \in 1..Len(ScenarioText)}

FieldsInit ==
    /\ clean \in FieldTexts /\ fields = NoFields /\ extracted = FALSE
    /\ DigitsIdle /\ DetectIdle /\ ReaderIdle /\ PipeIdle /\ ThreadsIdle

\* The field extraction at the end of a pipeline.
ExtractFields(urdu) ==
    /\ ~extracted
    /\ fields' = extract_fields(clean, urdu)
    /\ extracted' = TRUE
    /\ UNCHANGED <<clean, digitVars, detectVars, readerVars, pipeVars, threadVars>>

FieldsNext == \E urdu \in BOOLEAN : ExtractFields(urdu)

SpecFields == FieldsInit /\ [][FieldsNext]_vars

---------------------------------------------------------------------------
(* ocr_utils.py : text assembly and cleaning                               *)

\* sep.join(parts) for texts as sequences of code points.
RECURSIVE Join(_, _)
Join(parts, sep) ==
    IF parts = <<>> THEN <<>>
    ELSE IF Len(parts) = 1 THEN parts[1]
    ELSE parts[1] \o sep \o Join(Tail(parts), sep)

SpaceJoin(parts) == Join(parts, <<32>>)

\* re.sub(r"\s+", " ", t): every run of white space becomes one space.
RECURSIVE CollapseSpace(_)
CollapseSpace(t) ==
    IF t = <<>> THEN <<>>
    ELSE IF Head(t) \in ReSpace
         THEN IF Len(t) > 1 /\ t[2] \in ReSpace THEN CollapseSpace(Tail(t))
              ELSE <<32>> \o CollapseSpace(Tail(t))
         ELSE <<Head(t)>> \o CollapseSpace(Tail(t))

\* re.sub(r"[^\x00-\x7F]+", " ", t): every run of non-ASCII characters becomes
\* one space.
RECURSIVE BlankNonAscii(_)
BlankNonAscii(t) ==
    IF t = <<>> THEN <<>>
    ELSE IF Head(t) > 127
         THEN IF Len(t) > 1 /\ t[2] > 127 THEN BlankNonAscii(Tail(t))
              ELSE <<32>> \o BlankNonAscii(Tail(t))
         ELSE <<Head(t)>> \o BlankNonAscii(Tail(t))

\* str.strip(): white space removed at both ends.
RECURSIVE LStrip(_)
LStrip(t) == IF t # <<>> /\ Head(t) \in ReSpace THEN LStrip(Tail(t)) ELSE t

RECURSIVE RStrip(_)
RStrip(t) ==
    IF t # <<>> /\ t[Len(t)] \in ReSpace THEN RStrip(SubSeq(t, 1, Len(t) - 1)) ELSE t

Strip(t) == RStrip(LStrip(t))

\* unicodedata.normalize("NFKC", t) on the characters used here: the
\* no-break space becomes a space, the others are their own normal form.
Nfkc(t) == [i \in 1..Len(t) |-> IF t[i] = 160 THEN 32 ELSE t[i]]

\* clean_text of the plain pipeline.
clean_text(t) == Strip(BlankNonAscii(CollapseSpace(Nfkc(t))))

\* re.sub(r"\s+", " ", raw_text).strip() of the other two pipelines.
CollapseAndStrip(t) == Strip(CollapseSpace(t))

\* arabic_reshaper.reshape followed by bidi get_display, on the characters
\* used here: a text that holds a right-to-left letter is put in visual
\* order, which reverses it; any other text is left as it is.
RECURSIVE Reverse(_)
Reverse(t) == IF t = <<>> THEN <<>> ELSE Reverse(Tail(t)) \o <<Head(t)>>

RtlLetters == 1569..1610

Display(t) ==
    IF \E i \in 1..Len(t) : t[i] \in RtlLetters THEN Reverse(t) ELSE t

shape_and_bidi(t) == normalize_digits(Display(t))

---------------------------------------------------------------------------
(* ocr_utils.py : the process-wide recognizer                              *)

\* An optional value: <<>> is None, <<x>> is the value x.
Some(x) == <<x>>

Nothing == <<>>

DEFAULT_LANGS == {"en"}

\* easyocr.Reader(langs): the n-th Reader constructed in the process, with its
\* lang_list.
Reader(n, langs) == [id |-> n, lang_list |-> langs]

\* A test that rebuilds only when nothing is cached.
NeedsReader_OnlyWhenNone(cached, langs) == cached = Nothing

\* _OCR_READER is None or set(langs) - set(_OCR_READER.lang_list)
NeedsReader(cached, langs) ==
    cached = Nothing \/ langs \ cached[1].lang_list # {}

\* get_reader(langs) called with the module available or not, cache `cached`
\* and n readers constructed so far; arg is Nothing for langs=None.  okTry
\* and okFallback tell whether the construction in the try block and the one
\* in the except block succeed.  The result: the new cache, the new count,
\* the value returned, and whether an exception left the function.
get_reader(avail, cached, n, arg, okTry, okFallback) ==
    LET langs == IF arg = Nothing THEN DEFAULT_LANGS ELSE arg[1]
        keep(ret) == [cache |-> cached, built |-> n, ret |-> ret,
                      raised |-> FALSE, tryFailed |-> FALSE]
    IN  IF ~avail THEN keep(Nothing)
        ELSE IF ~NeedsReader(cached, langs) THEN keep(cached)
        ELSE IF okTry
             THEN [cache |-> Some(Reader(n + 1, langs)), built |-> n + 1,
                   ret |-> Some(Reader(n + 1, langs)),
                   raised |-> FALSE, tryFailed |-> FALSE]
        ELSE IF okFallback
             THEN [cache |-> Some(Reader(n + 1, DEFAULT_LANGS)), built |-> n + 1,
                   ret |-> Some(Reader(n + 1, DEFAULT_LANGS)),
                   raised |-> FALSE, tryFailed |-> TRUE]
        ELSE [cache |-> cached, built |-> n, ret |-> Nothing,
              raised |-> TRUE, tryFailed |-> TRUE]

\* Most Reader objects constructed in one run.
MaxBuilt == 3

\* The languages requested.
Langs == {"en", "ur", "hi"}

\* The langs arguments of the direct calls: None or a list of languages.
LangArgs == {Nothing} \cup {Some(l) : l \in SUBSET Langs}

ReaderInit ==
    /\ easyocr \in BOOLEAN /\ OCR_READER = Nothing /\ built = 0 /\ grCall = NoCall
    /\ DigitsIdle /\ DetectIdle /\ FieldsIdle /\ PipeIdle /\ ThreadsIdle

\* A direct call get_reader(langs).
GetReader(arg, okTry, okFallback) ==
    /\ built < MaxBuilt
    /\ LET r == get_reader(easyocr, OCR_READER, built, arg, okTry, okFallback)
       IN  /\ OCR_READER' = r.cache
           /\ built' = r.built
           /\ grCall' = [made |-> TRUE,
                         langs |-> IF arg = Nothing THEN DEFAULT_LANGS ELSE arg[1],
                         before |-> OCR_READER, builtBefore |-> built,
                         ret |-> r.ret, raised |-> r.raised,
                         tryFailed |-> r.tryFailed]
    /\ UNCHANGED <<easyocr, digitVars, detectVars, fieldVars, pipeVars, threadVars>>

ReaderNext ==
    \E arg \in LangArgs, okTry \in BOOLEAN, okFallback \in BOOLEAN :
        GetReader(arg, okTry, okFallback)

SpecReader == ReaderInit /\ [][ReaderNext]_vars

---------------------------------------------------------------------------
(* ocr_utils.py : get_reader called from two threads                       *)

\* A test that never finds a language missing.
LacksLangs_Never(cached, langs) == FALSE

\* set(langs) - set(_OCR_READER.lang_list), the second operand of the test of
\* get_reader, evaluated when _OCR_READER is not None.
LacksLangs(cached, langs) == langs \ cached[1].lang_list # {}

\* Most calls of get_reader one thread makes.
MaxThreadCalls == 2

\* The langs arguments of the threads: None or a list of languages.
ThreadLangArgs == {Nothing, Some({"ur"}), Some({"en", "ur"})}

\* Two threads in a process that imported easyocr and has built no Reader;
\* the callers either wrap every call of get_reader in one mutex or do not.
ThreadsInit ==
    /\ serialized \in BOOLEAN
    /\ pc = [t \in Threads |-> "idle"]
    /\ tLangs = [t \in Threads |-> {}]
    /\ tNew = [t \in Threads |-> Nothing]
    /\ tRet = [t \in Threads |-> Nothing]
    /\ tCalls = [t \in Threads |-> 0]
    /\ easyocr = TRUE /\ OCR_READER = Nothing /\ built = 0 /\ grCall = NoCall
    /\ DigitsIdle /\ DetectIdle /\ FieldsIdle /\ PipeIdle

\* Thread t calls get_reader(arg): easyocr is not None, langs defaults to
\* DEFAULT_LANGS.  With the mutex, a call begins only when no other thread is
\* inside get_reader.
Begin(t, arg) ==
    /\ pc[t] = "idle" /\ tCalls[t] < MaxThreadCalls
    /\ serialized => \A u \in Threads \ {t} : pc[u] = "idle"
    /\ pc' = [pc EXCEPT ![t] = "is_none"]
    /\ tLangs' = [tLangs EXCEPT ![t] = IF arg = Nothing THEN DEFAULT_LANGS ELSE arg[1]]
    /\ tRet' = [tRet EXCEPT ![t] = Nothing]
    /\ tCalls' = [tCalls EXCEPT ![t] = @ + 1]
    /\ UNCHANGED <<serialized, tNew, readerVars,
                   digitVars, detectVars, fieldVars, pipeVars>>

\* _OCR_READER is None: the first read of the global.
TestNone(t) ==
    /\ pc[t] = "is_none"
    /\ pc' = [pc EXCEPT ![t] = IF OCR_READER = Nothing THEN "construct" ELSE "lacks"]
    /\ UNCHANGED <<serialized, tLangs, tNew, tRet, tCalls, readerVars,
                   digitVars, detectVars, fieldVars, pipeVars>>

\* set(langs) - set(_OCR_READER.lang_list): the second read of the global.
TestLacks(t) ==
    /\ pc[t] = "lacks"
    /\ pc' = [pc EXCEPT ![t] = IF LacksLangs(OCR_READER, tLangs[t]) THEN "construct"
                               ELSE "return"]
    /\ UNCHANGED <<serialized, tLangs, tNew, tRet, tCalls, readerVars,
                   digitVars, detectVars, fieldVars, pipeVars>>

\* easyocr.Reader(langs, gpu=gpu), which succeeds.
Construct(t) ==
    /\ pc[t] = "construct"
    /\ built' = built + 1
    /\ tNew' = [tNew EXCEPT ![t] = Some(Reader(built + 1, tLangs[t]))]
    /\ pc' = [pc EXCEPT ![t] = "store"]
    /\ UNCHANGED <<serialized, tLangs, tRet, tCalls, easyocr, OCR_READER, grCall,
                   digitVars, detectVars, fieldVars, pipeVars>>

\* _OCR_READER = (the new Reader)
Store(t) ==
    /\ pc[t] = "store"
    /\ OCR_READER' = tNew[t]
    /\ tNew' = [tNew EXCEPT ![t] = Nothing]
    /\ pc' = [pc EXCEPT ![t] = "return"]
    /\ UNCHANGED <<serialized, tLangs, tRet, tCalls, easyocr, built, grCall,
                   digitVars, detectVars, fieldVars, pipeVars>>

\* return _OCR_READER: the global is read once more.
Return(t) ==
    /\ pc[t] = "return"
    /\ tRet' = [tRet EXCEPT ![t] = OCR_READER]
    /\ pc' = [pc EXCEPT ![t] = "idle"]
    /\ UNCHANGED <<serialized, tLangs, tNew, tCalls, readerVars,
                   digitVars, detectVars, fieldVars, pipeVars>>

ThreadsNext ==
    \E t \in Threads :
        \/ \E arg \in ThreadLangArgs : Begin(t, arg)
        \/ TestNone(t)
        \/ TestLacks(t)
        \/ Construct(t)
        \/ Store(t)
        \/ Return(t)

SpecThreads == ThreadsInit /\ [][ThreadsNext]_vars

---------------------------------------------------------------------------
(* ocr_utils.py : the three pipelines                                      *)

\* What image_input can be: a file path, a PIL image, a 3-channel array, a
\* 2-D (single-channel) array, or anything else.
ImageKinds == {"path", "pil", "array", "gray", "other"}

\* preprocess_func: not given, given and returning an image, given and
\* raising.
Hooks == {"none", "returns", "raises"}

Engines == {"easyocr", "tesseract", "other"}

\* An image in memory: the loaded input ("raw") or what the preprocessing
\* hook made of it ("hooked"); gray tells a 2-D array.
Image(src, gray) == [img |-> src, gray |-> gray]

\* The loading branch of extract_text_whatsapp_aware: the exception that
\* leaves it ("none" if none) and the image.
LoadWhatsapp(kind, has_cv2) ==
    CASE kind \in {"path", "pil", "array"} ->
            [error |-> "none", img_bgr |-> Image("raw", FALSE)]
      [] kind = "gray" ->
            IF has_cv2 THEN [error |-> "none", img_bgr |-> Image("raw", FALSE)]
            ELSE [error |-> "ImportError", img_bgr |-> Image("raw", TRUE)]
      [] OTHER -> [error |-> "ValueError", img_bgr |-> Image("raw", FALSE)]

\* The loading branch of extract_text_with_urdu_support: a 2-D array stays
\* 2-D.
LoadUrdu(kind) ==
    CASE kind \in {"path", "pil", "array"} ->
            [error |-> "none", img_bgr |-> Image("raw", FALSE)]
      [] kind = "gray" -> [error |-> "none", img_bgr |-> Image("raw", TRUE)]
      [] OTHER -> [error |-> "ValueError", img_bgr |-> Image("raw", FALSE)]

\* proc_bgr: the hook's image when the hook returns and cv2 can be imported
\* inside the try block, the loaded image otherwise.
Preprocessed(img_bgr, hook, has_cv2) ==
    IF hook = "returns" /\ has_cv2 THEN Image("hooked", FALSE) ELSE img_bgr

\* A region of the recognition loop: the whole image proc_bgr, or the crop of
\* it at box = <<y0, x0, y1, x1>>.
FullRegion(proc) == [kind |-> "full", img |-> proc.img, box |-> <<>>]

CropRegion(proc, box) == [kind |-> "crop", img |-> proc.img, box |-> box]

\* A substitution that also recognizes the whole image when regions were
\* found.
RegionsOf_AlwaysFull(proc, found) ==
    [i \in 1..Len(found) |-> CropRegion(proc, found[i])] \o <<FullRegion(proc)>>

\* regions = detect_text_regions(proc_bgr); if not regions: regions =
\* [proc_bgr]
RegionsOf(proc, found) ==
    IF found = <<>> THEN <<FullRegion(proc)>>
    ELSE [i \in 1..Len(found) |-> CropRegion(proc, found[i])]

\* A filter that lets every span through.
Accepted_All(span, min_confidence) == TRUE

\* confv = float(conf) if conf is not None else 0.0; confv >= min_confidence
Accepted(span, min_confidence) ==
    (IF span.conf = Nothing THEN 0 ELSE span.conf[1]) >= min_confidence

\* The entry of lines made from a span the filter accepted.
LineOf(span) ==
    [bbox |-> span.bbox, text |-> span.text,
     conf |-> IF span.conf = Nothing THEN Some(0) ELSE span.conf]

RECURSIVE Filtered(_, _)
Filtered(res, min_confidence) ==
    IF res = <<>> THEN <<>>
    ELSE IF Accepted(Head(res), min_confidence)
         THEN <<LineOf(Head(res))>> \o Filtered(Tail(res), min_confidence)
         ELSE Filtered(Tail(res), min_confidence)

\* The key (r['bbox'][0][1], r['bbox'][0][0]) of a is smaller than that of b.
KeyLess(a, b) ==
    \/ a.bbox[1][2] < b.bbox[1][2]
    \/ a.bbox[1][2] = b.bbox[1][2] /\ a.bbox[1][1] < b.bbox[1][1]

RECURSIVE InsertByKey(_, _)
InsertByKey(r, s) ==
    IF s = <<>> THEN <<r>>
    ELSE IF KeyLess(r, Head(s)) THEN <<r>> \o s
    ELSE <<Head(s)>> \o InsertByKey(r, Tail(s))

\* No sorting: the spans stay as the recognizer returned them.
SortByKey_Unsorted(s) == s

\* sorted(filtered, key=(top, left)), stable.
RECURSIVE SortByKey(_)
SortByKey(s) ==
    IF s = <<>> THEN <<>>
    ELSE InsertByKey(s[Len(s)], SortByKey(SubSeq(s, 1, Len(s) - 1)))

TextsOf(ls) == [i \in 1..Len(ls) |-> ls[i].text]

\* One readtext call: on which region (0 is the whole image of the quick
\* pass), with which detail argument, and whether it returned.
ReadCall(i, detail, ok) == [region |-> i, detail |-> detail, ok |-> ok]

\* A loop body without the retry: a failing region contributes nothing.
RegionStep_NoRetry(acc, i, oc, min_confidence, sort) ==
    IF oc.ok
    THEN LET filtered == Filtered(oc.spans, min_confidence)
             ordered == IF sort THEN SortByKey(filtered) ELSE filtered
         IN  [lines |-> acc.lines \o ordered,
              assembled |-> IF filtered = <<>> THEN acc.assembled
                            ELSE Append(acc.assembled, SpaceJoin(TextsOf(ordered))),
              log |-> Append(acc.log, ReadCall(i, 1, TRUE))]
    ELSE [lines |-> acc.lines, assembled |-> acc.assembled,
          log |-> Append(acc.log, ReadCall(i, 1, FALSE))]

\* A text is a str: a sequence of code points.  <<-1>> stands for a value
\* that is not a str, which " ".join rejects with a TypeError.
IsStr(text) == \A j \in 1..Len(text) : text[j] >= 0

\* The except block of the loop body: the text-only call on region i returns
\* oc.texts or raises.
RetryStep(acc, i, oc) ==
    LET single == SpaceJoin(oc.texts)
        add == oc.retryOk /\ oc.texts # <<>>
    IN  [lines |-> IF add
                   THEN Append(acc.lines,
                            [bbox |-> Nothing, text |-> single, conf |-> Nothing])
                   ELSE acc.lines,
         assembled |-> IF add THEN Append(acc.assembled, single)
                       ELSE acc.assembled,
         log |-> Append(acc.log, ReadCall(i, 0, oc.retryOk))]

\* The body of the loop over the regions, for region number i whose readtext
\* calls behave as oc says: the detail call returns oc.spans or raises; the
\* text-only call of the except block returns oc.texts or raises.  sort tells
\* the WhatsApp-aware loop, which sorts, from the Urdu-aware one.  When a
\* text among the accepted spans is not a str, the join raises after
\* lines.extend has run, and the except block follows.
RegionStep(acc, i, oc, min_confidence, sort) ==
    IF oc.ok
    THEN LET filtered == Filtered(oc.spans, min_confidence)
             ordered == IF sort THEN SortByKey(filtered) ELSE filtered
         IN  IF \E j \in 1..Len(ordered) : ~IsStr(ordered[j].text)
             THEN RetryStep([lines |-> acc.lines \o ordered,
                             assembled |-> acc.assembled,
                             log |-> Append(acc.log, ReadCall(i, 1, TRUE))], i, oc)
             ELSE [lines |-> acc.lines \o ordered,
                   assembled |-> IF filtered = <<>> THEN acc.assembled
                                 ELSE Append(acc.assembled, SpaceJoin(TextsOf(ordered))),
                   log |-> Append(acc.log, ReadCall(i, 1, TRUE))]
    ELSE RetryStep([lines |-> acc.lines, assembled |-> acc.assembled,
                    log |-> Append(acc.log, ReadCall(i, 1, FALSE))], i, oc)

\* for reg in regions: ... from region i on.
RECURSIVE RegionLoop(_, _, _, _, _, _)
RegionLoop(acc, i, n, ocs, min_confidence, sort) ==
    IF i > n THEN acc
    ELSE RegionLoop(RegionStep(acc, i, ocs[i], min_confidence, sort),
                    i + 1, n, ocs, min_confidence, sort)

\* if detected_lang == 'ur': the shaping of clean and of every line's text,
\* in a try block.  failAt = 0: no call of shape_and_bidi raises; failAt = k:
\* its k-th call raises (the first is the one on clean), which ends the
\* block and keeps what was shaped before.
ShapedClean(clean_, failAt) == IF failAt = 1 THEN clean_ ELSE shape_and_bidi(clean_)

ShapedLines(ls, failAt) ==
    [i \in 1..Len(ls) |->
        IF ls[i].text # <<>> /\ (failAt = 0 \/ i + 1 < failAt)
        THEN [ls[i] EXCEPT !.text = shape_and_bidi(ls[i].text)]
        ELSE ls[i]]

\* A pipeline that stops with an exception before its recognition loop.
Stopped(error, cache, n, log) ==
    [error |-> error, cache |-> cache, built |-> n, proc |-> Image("raw", FALSE),
     reader |-> Nothing, detected |-> FALSE, crops |-> <<>>, regions |-> <<>>,
     log |-> log, detected_lang |-> "None"]

\* The call of detect_text_regions on proc_bgr and what follows from it.
\* detFails tells that an OpenCV call of the detector raises; on a 2-D image
\* cv2.cvtColor(img, COLOR_BGR2GRAY) always does.
Detection(proc, gr, log, lang, detFails, cs) ==
    LET found == detect_text_regions(cv2, cs, SampleImage[1], SampleImage[2],
                                     MIN_AREA, MAX_AREA_RATIO_TENTHS)
    IN  IF cv2 /\ (detFails \/ proc.gray)
        THEN [Stopped("Exception", gr.cache, gr.built, log) EXCEPT
                  !.reader = gr.ret, !.proc = proc, !.detected_lang = lang]
        ELSE [error |-> "none", cache |-> gr.cache, built |-> gr.built,
              proc |-> proc, reader |-> gr.ret, detected |-> TRUE,
              crops |-> found, regions |-> RegionsOf(proc, found),
              log |-> log, detected_lang |-> lang]

\* extract_text_whatsapp_aware up to its loop: loading, the preprocessing
\* hook, get_reader(), detect_text_regions.
WhatsappPrefix(kind, hook, env) ==
    LET ld == LoadWhatsapp(kind, cv2)
        proc == Preprocessed(ld.img_bgr, hook, cv2)
        gr == get_reader(easyocr, OCR_READER, built, Nothing, env.okTry, env.okFallback)
    IN  IF ld.error # "none" THEN Stopped(ld.error, OCR_READER, built, <<>>)
        ELSE IF gr.raised THEN Stopped("Exception", gr.cache, gr.built, <<>>)
        ELSE IF gr.ret = Nothing THEN Stopped("RuntimeError", gr.cache, gr.built, <<>>)
        ELSE Detection(proc, gr, <<>>, "None", env.detFails, env.contours)

\* extract_text_with_urdu_support up to its loop: the import of langdetect,
\* loading, the hook, get_reader(), the quick text-only pass over the whole
\* image, language identification, get_reader() again, detect_text_regions.
UrduPrefix(kind, hook, env) ==
    LET ld == LoadUrdu(kind)
        proc == Preprocessed(ld.img_bgr, hook, cv2)
        gr == get_reader(easyocr, OCR_READER, built, Nothing, env.okTry, env.okFallback)
        quick_clean == IF env.quick.ok THEN CollapseAndStrip(SpaceJoin(env.quick.texts))
                       ELSE <<>>
        detected_lang == IF env.lang \notin {"missing", "raises"} /\ quick_clean # <<>>
                         THEN env.lang
                         ELSE "en"
        again == get_reader(easyocr, gr.cache, gr.built, Nothing, env.okTry, env.okFallback)
        log == <<ReadCall(0, 0, env.quick.ok)>>
    IN  IF ld.error # "none" THEN Stopped(ld.error, OCR_READER, built, <<>>)
        ELSE IF gr.raised THEN Stopped("Exception", gr.cache, gr.built, <<>>)
        ELSE IF gr.ret = Nothing THEN Stopped("RuntimeError", gr.cache, gr.built, <<>>)
        ELSE IF again.raised THEN Stopped("Exception", again.cache, again.built, log)
        ELSE Detection(proc, again, log, detected_lang, env.detFails, env.contours)

\* The loop of a pipeline over the regions of its prefix.
LoopOf(pre, ocs, min_confidence, sort) ==
    RegionLoop([lines |-> <<>>, assembled |-> <<>>, log |-> pre.log],
               1, Len(pre.regions), ocs, min_confidence, sort)

TraceOf(pre, log) ==
    [detected |-> pre.detected, crops |-> pre.crops, regions |-> pre.regions,
     log |-> log, reader |-> pre.reader, reads |-> <<>>]

\* The result of extract_text_whatsapp_aware after its loop.
WhatsappResult(acc) ==
    LET raw_text == SpaceJoin(acc.assembled)
        clean_ == CollapseAndStrip(raw_text)
    IN  [detected_language |-> "None", raw_text |-> raw_text, clean_text |-> clean_,
         lines |-> acc.lines, extracted_fields |-> extract_fields(clean_, FALSE)]

\* The result of extract_text_with_urdu_support after its loop.
UrduResult(acc, detected_lang, shapeFail) ==
    LET raw_text == SpaceJoin(acc.assembled)
        collapsed == CollapseAndStrip(raw_text)
        shaped == IF detected_lang = "ur" THEN ShapedClean(collapsed, shapeFail)
                  ELSE collapsed
        clean_ == normalize_digits(shaped)
    IN  [detected_language |-> detected_lang, raw_text |-> raw_text,
         clean_text |-> clean_,
         lines |-> IF detected_lang = "ur" THEN ShapedLines(acc.lines, shapeFail)
                   ELSE acc.lines,
         extracted_fields |-> extract_fields(clean_, TRUE)]

\* extract_text_from_image: how it ends, its result, its readtext call, and
\* the recognizer cache.  env.read is what reader.readtext(pre, detail=1)
\* does, env.tess what pytesseract.image_to_string does.
PlainRun(kind, engine, env) ==
    LET gr == get_reader(easyocr, OCR_READER, built, Nothing, env.okTry, env.okFallback)
        stop(error, g, log) ==
            [outcome |-> error, result |-> EmptyResult, log |-> log,
             cache |-> g.cache, built |-> g.built, reader |-> g.ret]
        same == [cache |-> OCR_READER, built |-> built, ret |-> Nothing]
        done(raw, ls, g, log) ==
            LET cleaned == clean_text(raw)
            IN  [outcome |-> "return",
                 result |-> [detected_language |-> "absent", raw_text |-> raw,
                             clean_text |-> cleaned, lines |-> ls,
                             extracted_fields |-> extract_fields(cleaned, FALSE)],
                 log |-> log, cache |-> g.cache, built |-> g.built, reader |-> g.ret]
    IN  IF kind # "pil" THEN stop("AttributeError", same, <<>>)
        ELSE IF engine = "easyocr" /\ easyocr
        THEN IF gr.raised THEN stop("Exception", gr, <<>>)
             ELSE IF ~env.read.ok THEN stop("Exception", gr, <<ReadCall(0, 1, FALSE)>>)
             ELSE IF \E i \in 1..Len(env.read.spans) : env.read.spans[i].conf = Nothing
             THEN stop("Exception", gr, <<ReadCall(0, 1, TRUE)>>)
             ELSE done(SpaceJoin(TextsOf(env.read.spans)),
                       [i \in 1..Len(env.read.spans) |->
                           [text |-> env.read.spans[i].text,
                            bbox |-> env.read.spans[i].bbox,
                            conf |-> env.read.spans[i].conf]],
                       gr, <<ReadCall(0, 1, TRUE)>>)
        ELSE IF engine = "tesseract" /\ pytesseract
        THEN IF ~env.tess.ok THEN stop("Exception", same, <<>>)
             ELSE done(env.tess.text, <<>>, same, <<>>)
        ELSE done(<<>>, <<>>, same, <<>>)

\* The spans a detail call may return: a at (x 0, y 10) with confidence 0.3,
\* an Urdu one (alef, digit one) at the origin with no confidence, c at
\* (x 5, y 0) with confidence 0.5.
SpanA == [bbox |-> <<<<0, 10>>>>, text |-> <<97>>, conf |-> Some(3)]

SpanB == [bbox |-> <<<<0, 0>>>>, text |-> <<1575, 1777>>, conf |-> Nothing]

SpanC == [bbox |-> <<<<5, 0>>>>, text |-> <<99>>, conf |-> Some(5)]

\* Most spans one detail call returns.
MaxSpans == 2

SpanLists(pool, n) == UNION {[1..k -> pool] : k \in 0..n}

\* What the two readtext calls on one region do: the detail call returns
\* spans, or it raises and the text-only call raises or returns texts.
Recognized(spans) == [ok |-> TRUE, spans |-> spans, retryOk |-> FALSE, texts |-> <<>>]

Retried(retryOk, texts) == [ok |-> FALSE, spans |-> <<>>, retryOk |-> retryOk, texts |-> texts]

\* A span whose text is not a str, at (x 0, y 20) with confidence 0.3.
SpanN == [bbox |-> <<<<0, 20>>>>, text |-> <<-1>>, conf |-> Some(3)]

\* The detail call returns spans one of which has a text that is not a str;
\* the text-only call then raises or returns texts.
Unjoinable(spans, retryOk, texts) ==
    [ok |-> TRUE, spans |-> spans, retryOk |-> retryOk, texts |-> texts]

\* The inputs and the behaviour of the environment tried by the wide
\* specification: every kind of input, hook and engine, every failure, few
\* recognition results.
Wide ==
    [kinds |-> ImageKinds, hooks |-> Hooks, engines |-> Engines, thetas |-> {3},
     builds |-> {<<TRUE, TRUE>>, <<FALSE, TRUE>>, <<FALSE, FALSE>>},
     detFails |-> BOOLEAN,
     contourLists |-> {<<>>, <<LowRect, HighRect>>, <<SmallRect, BigRect>>},
     outcomes |-> {Recognized(<<SpanA>>), Retried(FALSE, <<>>), Retried(TRUE, <<<<116>>>>)},
     reads |-> {Recognized(<<SpanA>>), Recognized(<<SpanB>>), Retried(FALSE, <<>>)},
     tess |-> {[ok |-> TRUE, text |-> <<116, 160, 1777>>], [ok |-> FALSE, text |-> <<>>]},
     quicks |-> {[ok |-> TRUE, texts |-> <<<<116>>>>], [ok |-> FALSE, texts |-> <<>>]},
     langs |-> {"missing", "raises", "en", "ur"},
     shapeFails |-> {0, 1}]

\* Those tried by the loop specification: one kind of input and no failure
\* outside the loop, every recognition result of up to MaxSpans spans.
Narrow ==
    [kinds |-> {"pil"}, hooks |-> {"none"}, engines |-> {"easyocr"},
     thetas |-> {0, 3, 5},
     builds |-> {<<TRUE, TRUE>>},
     detFails |-> {FALSE},
     contourLists |-> {<<>>, <<LowRect, HighRect>>},
     outcomes |-> {Recognized(sp) : sp \in SpanLists({SpanA, SpanB, SpanC}, MaxSpans)}
                  \cup {Retried(FALSE, <<>>), Retried(TRUE, <<>>),
                        Retried(TRUE, <<<<116>>>>), Retried(TRUE, <<<<116>>, <<117>>>>)},
     reads |-> {Recognized(<<SpanC, SpanA>>)},
     tess |-> {[ok |-> TRUE, text |-> <<116>>]},
     quicks |-> {[ok |-> TRUE, texts |-> <<<<116>>>>]},
     langs |-> {"en", "ur"},
     shapeFails |-> {0}]

\* Those tried by the assembly specification: as the loop specification,
\* with detail calls that return a text that is not a str.
Partial ==
    [Narrow EXCEPT
        !.outcomes = {Recognized(<<SpanA>>), Recognized(<<SpanC, SpanA>>),
                      Retried(FALSE, <<>>), Retried(TRUE, <<<<116>>>>),
                      Unjoinable(<<SpanN>>, TRUE, <<<<116>>>>),
                      Unjoinable(<<SpanN, SpanC>>, FALSE, <<>>),
                      Unjoinable(<<SpanA, SpanN>>, TRUE, <<<<116>>, <<117>>>>)}]

\* A call of extract_text_from_image(image_pil, engine).
ExtractTextFromImage(D) ==
    /\ outcome = "none"
    /\ \E kind \in D.kinds, engine \in D.engines, b \in D.builds,
       read \in D.reads, tess \in D.tess :
        LET r == PlainRun(kind, engine,
                          [okTry |-> b[1], okFallback |-> b[2], read |-> read, tess |-> tess])
        IN  /\ call' = [fn |-> "plain", image_input |-> kind, engine |-> engine,
                        min_confidence |-> 0, preprocess_func |-> "none"]
            /\ outcome' = r.outcome
            /\ result' = r.result
            /\ trace' = [NoTrace EXCEPT !.log = r.log, !.reader = r.reader]
            /\ OCR_READER' = r.cache
            /\ built' = r.built
            /\ UNCHANGED <<easyocr, grCall, cv2, pytesseract,
                           digitVars, detectVars, fieldVars, threadVars>>

\* The call gets as far as its recognizer: the input loaded and get_reader()
\* returned one.
ReaderReady(loadError, b) ==
    LET gr == get_reader(easyocr, OCR_READER, built, Nothing, b[1], b[2])
    IN  loadError = "none" /\ ~gr.raised /\ gr.ret # Nothing

\* What the environment does is drawn from S only where the call gets that
\* far; elsewhere it has no effect and d stands for it.
Drawn(reached, S, d) == IF reached THEN S ELSE {d}

\* A call of extract_text_whatsapp_aware(image_input, preprocess_func=hook,
\* min_confidence=theta).
ExtractTextWhatsappAware(D) ==
    /\ outcome = "none"
    /\ \E kind \in D.kinds, hook \in D.hooks, theta \in D.thetas, b \in D.builds :
       \E detFails \in Drawn(ReaderReady(LoadWhatsapp(kind, cv2).error, b), D.detFails, FALSE),
          cs \in Drawn(ReaderReady(LoadWhatsapp(kind, cv2).error, b), D.contourLists, <<>>) :
        LET pre == WhatsappPrefix(kind, hook,
                       [okTry |-> b[1], okFallback |-> b[2],
                        detFails |-> detFails, contours |-> cs])
        IN  \E ocs \in [1..Len(pre.regions) -> D.outcomes] :
                LET acc == LoopOf(pre, ocs, theta, TRUE)
                IN  /\ call' = [fn |-> "whatsapp", image_input |-> kind,
                                engine |-> "easyocr", min_confidence |-> theta,
                                preprocess_func |-> hook]
                    /\ outcome' = IF pre.error = "none" THEN "return" ELSE pre.error
                    /\ result' = IF pre.error = "none" THEN WhatsappResult(acc)
                                 ELSE EmptyResult
                    /\ trace' = [TraceOf(pre, acc.log) EXCEPT !.reads = ocs]
                    /\ OCR_READER' = pre.cache
                    /\ built' = pre.built
                    /\ UNCHANGED <<easyocr, grCall, cv2, pytesseract,
                                   digitVars, detectVars, fieldVars, threadVars>>

\* A call of extract_text_with_urdu_support(image_input, min_confidence=theta,
\* preprocess_func=hook).  lang is what language identification does on the
\* text of the quick pass: langdetect is "missing", detect "raises", or it
\* returns a code; shapeFail tells where shaping raises, see ShapedClean.
ExtractTextWithUrduSupport(D) ==
    /\ outcome = "none"
    /\ \E kind \in D.kinds, hook \in D.hooks, theta \in D.thetas, b \in D.builds :
       \E detFails \in Drawn(ReaderReady(LoadUrdu(kind).error, b), D.detFails, FALSE),
          cs \in Drawn(ReaderReady(LoadUrdu(kind).error, b), D.contourLists, <<>>),
          quick \in Drawn(ReaderReady(LoadUrdu(kind).error, b), D.quicks,
                          [ok |-> FALSE, texts |-> <<>>]),
          lang \in Drawn(ReaderReady(LoadUrdu(kind).error, b), D.langs, "missing") :
       \E shapeFail \in Drawn(lang = "ur", D.shapeFails, 0) :
        LET pre == UrduPrefix(kind, hook,
                       [okTry |-> b[1], okFallback |-> b[2],
                        detFails |-> detFails, contours |-> cs, quick |-> quick,
                        lang |-> lang])
        IN  \E ocs \in [1..Len(pre.regions) -> D.outcomes] :
                LET acc == LoopOf(pre, ocs, theta, FALSE)
                IN  /\ call' = [fn |-> "urdu", image_input |-> kind,
                                engine |-> "easyocr", min_confidence |-> theta,
                                preprocess_func |-> hook]
                    /\ outcome' = IF pre.error = "none" THEN "return" ELSE pre.error
                    /\ result' = IF pre.error = "none"
                                 THEN UrduResult(acc, pre.detected_lang, shapeFail)
                                 ELSE EmptyResult
                    /\ trace' = [TraceOf(pre, acc.log) EXCEPT !.reads = ocs]
                    /\ OCR_READER' = pre.cache
                    /\ built' = pre.built
                    /\ UNCHANGED <<easyocr, grCall, cv2, pytesseract,
                                   digitVars, detectVars, fieldVars, threadVars>>

\* The recognizer cache before a call: empty, or holding the default
\* recognizer an earlier call built (only where easyocr is importable).
Cached ==
    \/ OCR_READER = Nothing /\ built = 0
    \/ easyocr /\ OCR_READER = Some(Reader(1, DEFAULT_LANGS)) /\ built = 1

\* A behaviour is one call of one pipeline.
PipeInit ==
    /\ easyocr \in BOOLEAN /\ cv2 \in BOOLEAN /\ pytesseract \in BOOLEAN
    /\ Cached /\ grCall = NoCall
    /\ call = NoArgs /\ outcome = "none" /\ result = EmptyResult /\ trace = NoTrace
    /\ DigitsIdle /\ DetectIdle /\ FieldsIdle /\ ThreadsIdle

PipeNext ==
    \/ ExtractTextFromImage(Wide)
    \/ ExtractTextWhatsappAware(Wide)
    \/ ExtractTextWithUrduSupport(Wide)

\* Every pipeline on every kind of input, with every capability present or
\* absent and every failure.
SpecPipe == PipeInit /\ [][PipeNext]_vars

LoopInit ==
    /\ easyocr = TRUE /\ cv2 \in BOOLEAN /\ pytesseract = FALSE
    /\ Cached /\ grCall = NoCall
    /\ call = NoArgs /\ outcome = "none" /\ result = EmptyResult /\ trace = NoTrace
    /\ DigitsIdle /\ DetectIdle /\ FieldsIdle /\ ThreadsIdle

LoopNext ==
    \/ ExtractTextFromImage(Narrow)
    \/ ExtractTextWhatsappAware(Narrow)
    \/ ExtractTextWithUrduSupport(Narrow)

\* The pipelines on a PIL image with recognition available, with every
\* recognition result of the loop.
SpecLoop == LoopInit /\ [][LoopNext]_vars

AssemblyNext == ExtractTextWhatsappAware(Partial)

\* The region-aware pipeline on a PIL image, with recognizers that may
\* return a text that is not a str.
SpecAssembly == LoopInit /\ [][AssemblyNext]_vars

---------------------------------------------------------------------------
(* Claims                                                                  *)

\* C1: with the recognition engine available and the constructions of the call
\* succeeding, a call of get_reader whose requested languages are all in the
\* cached recognizer's language list returns the cached instance and
\* constructs nothing; a call that requests a language the cached recognizer
\* lacks, or that finds no cached recognizer, constructs a new recognizer for
\* the requested languages, stores it as the cached instance and returns it.
C1_ReuseOrRebuild ==
    (grCall.made /\ easyocr /\ ~grCall.tryFailed) =>
        IF grCall.before # Nothing /\ grCall.langs \subseteq grCall.before[1].lang_list
        THEN /\ grCall.ret = grCall.before
             /\ OCR_READER = grCall.before
             /\ built = grCall.builtBefore
        ELSE /\ grCall.ret # Nothing
             /\ grCall.ret[1].id = grCall.builtBefore + 1
             /\ grCall.ret[1].lang_list = grCall.langs
             /\ built = grCall.builtBefore + 1
             /\ OCR_READER = grCall.ret

\* C1 witness: a recognizer for {en} was cached and reused, and a request
\* that includes ur then replaced it by a new one.
C1_Witness ==
    /\ grCall.made /\ easyocr /\ ~grCall.tryFailed
    /\ grCall.before = Some(Reader(1, {"en"}))
    /\ grCall.langs = {"en", "ur"}
    /\ OCR_READER = Some(Reader(2, {"en", "ur"}))

\* C1 second witness: a request for {en} found a recognizer for {en, ur} and
\* was given that instance.
C1_WitnessReuse ==
    /\ grCall.made /\ easyocr /\ ~grCall.tryFailed
    /\ grCall.before = Some(Reader(1, {"en", "ur"}))
    /\ grCall.langs = {"en"}
    /\ grCall.ret = grCall.before /\ built = 1

\* A call of one of the two pipelines that work region by region.
RegionAware == call.fn \in {"whatsapp", "urdu"}

\* The readtext calls made on region i, in their order.
CallsOn(i) == SelectSeq(trace.log, LAMBDA c : c.region = i)

\* The lines that carry no confidence, and the regions whose text-only call
\* returned.
LinesWithoutConf == {i \in 1..Len(result.lines) : result.lines[i].conf = Nothing}

RetriedRegions ==
    {i \in 1..Len(trace.regions) : \E j \in 1..Len(trace.log) :
        trace.log[j] = ReadCall(i, 0, TRUE)}

\* C2 as stated: in the lines the region-aware and the Urdu-aware pipeline
\* return, every span has a confidence and it is at least min_confidence,
\* whichever path handled its region.
C2_EveryLineAtLeastThreshold ==
    (RegionAware /\ outcome = "return") =>
        \A i \in 1..Len(result.lines) :
            /\ result.lines[i].conf # Nothing
            /\ result.lines[i].conf[1] >= call.min_confidence

\* C2 amended: in the lines the two pipelines return, every span that has a
\* confidence has one of at least min_confidence; a span without a
\* confidence has no bounding box either and is the text of the text-only
\* retry of a region whose detail call failed, at most one such span per
\* retried region.
C2_PresentConfidenceAtLeastThreshold ==
    (RegionAware /\ outcome = "return") =>
        /\ \A i \in 1..Len(result.lines) :
              IF result.lines[i].conf = Nothing
              THEN result.lines[i].bbox = Nothing
              ELSE result.lines[i].conf[1] >= call.min_confidence
        /\ Cardinality(LinesWithoutConf) <= Cardinality(RetriedRegions)

\* C2 witness: with threshold 0.5, a first region whose detail call failed
\* gave a line without confidence, and a second region gave the one of its
\* spans with confidence 0.5.
C2_Witness ==
    /\ RegionAware /\ outcome = "return" /\ call.min_confidence = 5
    /\ Len(trace.regions) = 2
    /\ trace.log = <<ReadCall(1, 1, FALSE), ReadCall(1, 0, TRUE), ReadCall(2, 1, TRUE)>>
    /\ Len(result.lines) = 2
    /\ result.lines[1].conf = Nothing
    /\ result.lines[2].conf = Some(5)

\* C3 as stated: every call of each of the three pipelines returns a result,
\* raises the unsupported-input error (ValueError) or raises the
\* recognition-unavailable error (RuntimeError); no other exception leaves
\* it.
C3_ThreeOutcomes ==
    outcome \in {"none", "return", "ValueError", "RuntimeError"}

\* The calls of C3 that do end in one of the three outcomes: each outcome is
\* reached.
C3_Returns == RegionAware /\ outcome = "return" /\ call.preprocess_func = "raises"

\* C4: in the region-aware and the Urdu-aware pipeline, once the loop over
\* the regions is reached the pipeline returns; every region gets its detail
\* call, and a second, text-only call exactly when the detail call failed,
\* and no third; the regions are gone through in order whatever failed; and
\* when both calls of every region failed, there is no line and no text.
C4_RetryOnceAndContinue ==
    (RegionAware /\ trace.detected) =>
        /\ outcome = "return"
        /\ \A i \in 1..Len(trace.regions) :
              \/ CallsOn(i) = <<ReadCall(i, 1, TRUE)>>
              \/ \E ok \in BOOLEAN :
                    CallsOn(i) = <<ReadCall(i, 1, FALSE), ReadCall(i, 0, ok)>>
        /\ \A j, k \in 1..Len(trace.log) :
              j < k => trace.log[j].region <= trace.log[k].region
        /\ Cardinality(LinesWithoutConf) <= Cardinality(RetriedRegions)
        /\ (\A i \in 1..Len(trace.regions) : CallsOn(i)[1].ok = FALSE /\ i \notin RetriedRegions)
              => (result.lines = <<>> /\ result.raw_text = <<>> /\ result.clean_text = <<>>)

\* C4 witness: both calls on the first of two regions failed, the second
\* region was recognized and its span is the only line.
C4_Witness ==
    /\ RegionAware /\ outcome = "return"
    /\ CallsOn(1) = <<ReadCall(1, 1, FALSE), ReadCall(1, 0, FALSE)>>
    /\ CallsOn(2) = <<ReadCall(2, 1, TRUE)>>
    /\ Len(result.lines) = 1 /\ result.lines[1].conf # Nothing
    /\ result.raw_text # <<>>

\* C4 second witness: both calls failed on the one region there is, and the
\* pipeline returned an empty result.
C4_WitnessAllFail ==
    /\ RegionAware /\ outcome = "return"
    /\ trace.log \in {<<ReadCall(1, 1, FALSE), ReadCall(1, 0, FALSE)>>,
                      <<ReadCall(0, 0, TRUE), ReadCall(1, 1, FALSE), ReadCall(1, 0, FALSE)>>}
    /\ result.lines = <<>>

\* C5 as stated: when easyocr cannot be imported (get_reader returns None),
\* extract_text_from_image on a PIL image returns a result with empty
\* raw_text, clean_text, lines and field lists, and the other two pipelines
\* raise RuntimeError on every supported input (a path, a PIL image, an
\* array of two or three dimensions).
C5_UnavailableOutcomes ==
    ~easyocr =>
        /\ (call.fn = "plain" /\ call.image_input = "pil") =>
              /\ outcome = "return"
              /\ result.raw_text = <<>> /\ result.clean_text = <<>>
              /\ result.lines = <<>> /\ result.extracted_fields = NoFields
        /\ (RegionAware /\ call.image_input \in {"path", "pil", "array", "gray"}) =>
              outcome = "RuntimeError"

\* The part of C5 on the two region-aware pipelines alone.
C5_RegionAwareRaiseUnavailable ==
    (~easyocr /\ RegionAware /\ call.image_input \in {"path", "pil", "array", "gray"}) =>
        outcome = "RuntimeError"

\* A call C5 is about that does what C5 says: RuntimeError on a PIL image.
C5_Raised == ~easyocr /\ RegionAware /\ outcome = "RuntimeError" /\ call.image_input = "pil"

\* The regions on which the detail call was made, in the order of the calls.
RecognizedRegions ==
    LET detail == SelectSeq(trace.log, LAMBDA c : c.detail = 1)
    IN  [i \in 1..Len(detail) |-> trace.regions[detail[i].region]]

\* C6: in the region-aware and the Urdu-aware pipeline, when
\* detect_text_regions returned an empty sequence exactly one region is
\* recognized and it is the whole processed image; when it returned a
\* non-empty sequence exactly the returned regions are recognized, in the
\* order returned, and the whole image is not among them.
C6_FullImageIffNoRegion ==
    (RegionAware /\ trace.detected) =>
        LET proc == Preprocessed(Image("raw", call.image_input = "gray" /\ call.fn = "urdu"),
                                 call.preprocess_func, cv2)
        IN  IF trace.crops = <<>>
            THEN RecognizedRegions = <<FullRegion(proc)>>
            ELSE /\ RecognizedRegions =
                        [i \in 1..Len(trace.crops) |-> CropRegion(proc, trace.crops[i])]
                 /\ \A i \in 1..Len(RecognizedRegions) : RecognizedRegions[i].kind # "full"

\* C6 witness: with cv2 present no contour passed the area filter, and the
\* one region recognized was the whole image the hook returned.
C6_Witness ==
    /\ RegionAware /\ trace.detected /\ cv2 /\ outcome = "return"
    /\ trace.crops = <<>>
    /\ RecognizedRegions = <<FullRegion(Image("hooked", FALSE))>>

\* C6 second witness: the detector returned two regions and these two were
\* recognized, the upper one first.
C6_WitnessRegions ==
    /\ RegionAware /\ trace.detected /\ outcome = "return"
    /\ Len(trace.crops) = 2 /\ trace.crops[1][1] < trace.crops[2][1]
    /\ Len(RecognizedRegions) = 2
    /\ RecognizedRegions[1].box = trace.crops[1]
    /\ RecognizedRegions[2].box = trace.crops[2]

\* The regions the detector returned (none before it has returned).
ReturnedRegions == {crops[i] : i \in 1..Len(crops)}

RegionArea(r) == (r[3] - r[1]) * (r[4] - r[2])

\* C7: every padded and clamped region (y0, x0, y1, x1) the detector computes
\* from a bounding rectangle inside the image satisfies
\* 0 <= y0 <= y1 <= h_img and 0 <= x0 <= x1 <= w_img.
C7_RegionContained ==
    \A r \in ReturnedRegions :
        /\ 0 <= r[1] /\ r[1] <= r[3] /\ r[3] <= h_img
        /\ 0 <= r[2] /\ r[2] <= r[4] /\ r[4] <= w_img

\* C7 witness: a rectangle one pixel from the left edge and touching the top
\* edge was padded and clamped on all four sides.
C7_Witness ==
    /\ detected
    /\ h_img = MaxDim /\ w_img = MaxDim
    /\ contours = <<<<1, 0, MaxDim - 2, MaxDim - 1>>>>
    /\ crops = <<<<0, 0, MaxDim, MaxDim>>>>

\* C8 as stated: the area of every returned region, measured on its padded and
\* clamped coordinates, lies in [min_area, max_area_ratio * image_area].
C8_PaddedAreaInRange ==
    \A r \in ReturnedRegions :
        /\ RegionArea(r) >= MIN_AREA
        /\ RegionArea(r) * 10 <= MAX_AREA_RATIO_TENTHS * h_img * w_img

\* C8 amended: every returned region comes from a contour whose bounding
\* rectangle has an area w * h in [min_area, max_area_ratio * image_area];
\* the region contains that rectangle, so its own area is at least min_area,
\* and it is at most the area of the image.
C8_RectAreaInRange ==
    \A r \in ReturnedRegions :
        /\ \E i \in 1..Len(contours) :
              LET c == contours[i]
              IN  /\ c[3] * c[4] >= MIN_AREA
                  /\ c[3] * c[4] * 10 <= MAX_AREA_RATIO_TENTHS * h_img * w_img
                  /\ r[1] <= c[2] /\ c[2] + c[4] <= r[3]
                  /\ r[2] <= c[1] /\ c[1] + c[3] <= r[4]
        /\ RegionArea(r) >= MIN_AREA
        /\ RegionArea(r) <= h_img * w_img

\* C8 witness: a rectangle whose area passes the filter was padded to the
\* whole image, which is larger than max_area_ratio of itself.
C8_Witness ==
    /\ detected /\ Len(crops) = 1 /\ Len(contours) = 1
    /\ contours[1][3] * contours[1][4] * 10 <= MAX_AREA_RATIO_TENTHS * h_img * w_img
    /\ RegionArea(crops[1]) = h_img * w_img

Contains(list, x) == \E i \in 1..Len(list) : list[i] = x

\* "+92 300 1234567"
ScenarioPhone == <<43, 57, 50, 32, 51, 48, 48, 32, 49, 50, 51, 52, 53, 54, 55>>

\* "scam@fraud.com"
ScenarioEmail == <<115, 99, 97, 109, 64, 102, 114, 97, 117, 100, 46, 99, 111, 109>>

\* "www.fakepay.com"
ScenarioUrl == <<119, 119, 119, 46, 102, 97, 107, 101, 112, 97, 121, 46, 99, 111, 109>>

\* "Rs. 5,000"
ScenarioAmount == <<82, 115, 46, 32, 53, 44, 48, 48, 48>>

\* C9 as stated: on the scenario text the phones list contains the element
\* "+92 300 1234567", the emails list "scam@fraud.com", the urls list
\* "www.fakepay.com" and the amounts list "Rs. 5,000".
C9_ScenarioFields ==
    (extracted /\ clean = ScenarioText) =>
        /\ Contains(fields.phones, ScenarioPhone)
        /\ Contains(fields.emails, ScenarioEmail)
        /\ Contains(fields.urls, ScenarioUrl)
        /\ Contains(fields.amounts, ScenarioAmount)

\* C9 amended: on the scenario text the one element of the phones list is
\* "+92 300 1234567 ", the number with the space that follows it in the text
\* (the greedy run of digits, white space and hyphens takes it), and no
\* element is the number without that space; the emails list is
\* <<"scam@fraud.com">>, the urls list <<"www.fakepay.com">> and the amounts
\* list <<"Rs. 5,000">>.
C9_ScenarioFieldsGreedy ==
    (extracted /\ clean = ScenarioText) =>
        /\ fields.phones = <<ScenarioPhone \o <<32>>>>
        /\ ~Contains(fields.phones, ScenarioPhone)
        /\ fields.emails = <<ScenarioEmail>>
        /\ fields.urls = <<ScenarioUrl>>
        /\ fields.amounts = <<ScenarioAmount>>

\* C9 witness: the fields of the whole scenario text have been extracted and
\* each list holds an element.
C9_Witness ==
    /\ extracted /\ clean = ScenarioText
    /\ Len(fields.phones) = 1 /\ Len(fields.emails) = 1
    /\ Len(fields.urls) = 1 /\ Len(fields.amounts) = 1

\* C10: normalize_digits is idempotent, normalize_digits(normalize_digits(T))
\* = normalize_digits(T): once it has been applied, applying it again changes
\* nothing, and its result holds no Arabic-Indic and no Extended
\* Arabic-Indic digit.
C10_Idempotent ==
    dCalls >= 1 =>
        /\ normalize_digits(dOut) = dOut
        /\ dOut = normalize_digits(dText)
        /\ \A i \in 1..Len(dOut) : dOut[i] \notin ArabicIndic \cup ExtendedArabicIndic
        /\ (dText = <<1777, 1778>> => dOut = <<49, 50>>)

\* C10 witness: normalize_digits was applied twice to a text holding an Urdu
\* digit and an Arabic-Indic digit.
C10_Witness ==
    /\ dCalls = 2
    /\ dText = <<1777, 1634>>
    /\ dOut = <<49, 50>>

\* A call of thread t has returned a recognizer that lacks a language the
\* call requested.
ReturnedLacking(t) ==
    /\ pc[t] = "idle" /\ tRet[t] # Nothing
    /\ ~(tLangs[t] \subseteq tRet[t][1].lang_list)

\* Thread t is about to construct or store a recognizer the cache no longer
\* needs: another thread filled the cache for the same request meanwhile.
FillsTwice(t) ==
    /\ pc[t] \in {"construct", "store"}
    /\ ~NeedsReader(OCR_READER, tLangs[t])

\* C11: when every call of get_reader is serialized by one mutex, every call
\* that has returned was given a recognizer whose language list holds every
\* language it requested, and no thread constructs or stores a recognizer
\* for a request the cache already satisfies; without the mutex both
\* failures are reachable (the two witnesses).
C11_SerializedSafe ==
    serialized => \A t \in Threads : tCalls[t] > 0 =>
        /\ (pc[t] = "idle" => tRet[t] # Nothing /\ tLangs[t] \subseteq tRet[t][1].lang_list)
        /\ ~FillsTwice(t)

\* C11 witness: without the mutex, thread 1 asked for the default language en
\* and thread 2 for ur, both found the cache empty, and thread 1 was handed
\* the recognizer for ur that thread 2 stored last.
C11_Witness ==
    /\ ~serialized
    /\ tLangs[1] = {"en"} /\ tLangs[2] = {"ur"}
    /\ built = 2
    /\ ReturnedLacking(1)
    /\ tRet[1] = Some(Reader(2, {"ur"}))

\* C11 second witness: without the mutex, both threads asked for ur, and one
\* is still constructing its recognizer after the other has stored one.
C11_WitnessFillsTwice ==
    /\ ~serialized
    /\ tLangs[1] = {"ur"} /\ tLangs[2] = {"ur"}
    /\ \E t \in Threads : FillsTwice(t)

\* C11 without its condition: no call returns a recognizer that lacks a
\* requested language, mutex or not.
C11_AlwaysSafe == \A t \in Threads : ~ReturnedLacking(t)

\* The spans of region i that pass the confidence filter, in the order in
\* which the detail call returned them.
AcceptedOf(i) ==
    SelectSeq(trace.reads[i].spans, LAMBDA sp : Accepted(sp, call.min_confidence))

\* How many lines region i contributed: its accepted spans, or the one line
\* of a text-only retry that returned text.
SegLen(i) ==
    IF trace.reads[i].ok THEN Len(AcceptedOf(i))
    ELSE IF trace.reads[i].retryOk /\ trace.reads[i].texts # <<>> THEN 1 ELSE 0

RECURSIVE SegStart(_)
SegStart(i) == IF i = 1 THEN 0 ELSE SegStart(i - 1) + SegLen(i - 1)

\* The lines of region i, if `lines` is ordered region by region.
Seg(i) == SubSeq(result.lines, SegStart(i) + 1, SegStart(i) + SegLen(i))

\* A span or a line without its text: bounding box and confidence, an absent
\* confidence counting as 0.
Core(x) == <<x.bbox, IF x.conf = Nothing THEN 0 ELSE x.conf[1]>>

Cores(s) == [j \in 1..Len(s) |-> Core(s[j])]

\* A span or a line with its text.
Whole(x) == <<x.bbox, x.text, IF x.conf = Nothing THEN 0 ELSE x.conf[1]>>

Wholes(s) == [j \in 1..Len(s) |-> Whole(s[j])]

Count(s, x) == Cardinality({j \in 1..Len(s) : s[j] = x})

\* (top, left) of the first corner of a is not after that of b.
TopLeftNotAfter(a, b) ==
    \/ a.bbox[1][2] < b.bbox[1][2]
    \/ a.bbox[1][2] = b.bbox[1][2] /\ a.bbox[1][1] <= b.bbox[1][1]

\* C12: in the result of both pipelines `lines` is the concatenation, region
\* by region in detection order, of what each region contributed; in
\* extract_text_whatsapp_aware the lines of a recognized region are its
\* accepted spans sorted ascending by (top, left) of the first corner of
\* their bounding box; in extract_text_with_urdu_support they are its
\* accepted spans in the order the recognizer returned them.
C12_RegionOrderAndSort ==
    (RegionAware /\ outcome = "return") =>
        LET n == Len(trace.regions)
        IN  /\ Len(result.lines) = SegStart(n) + SegLen(n)
            /\ \A i \in 1..n : trace.reads[i].ok =>
                  IF call.fn = "whatsapp"
                  THEN /\ \A j \in 1..SegLen(i) :
                             Count(Wholes(Seg(i)), Whole(AcceptedOf(i)[j]))
                                = Count(Wholes(AcceptedOf(i)), Whole(AcceptedOf(i)[j]))
                       /\ \A j, k \in 1..SegLen(i) :
                             j < k => TopLeftNotAfter(Seg(i)[j], Seg(i)[k])
                  ELSE Cores(Seg(i)) = Cores(AcceptedOf(i))

\* C12 witness: the region-aware pipeline got from the second of two regions
\* the span at (x 0, y 10) before the span at (x 5, y 0), accepted both, and
\* returned them in the opposite order, after the line of the first region.
C12_Witness ==
    /\ call.fn = "whatsapp" /\ outcome = "return"
    /\ Len(trace.regions) = 2
    /\ trace.reads[1] = Retried(TRUE, <<<<116>>>>)
    /\ trace.reads[2] = Recognized(<<SpanA, SpanC>>)
    /\ call.min_confidence = 3
    /\ Cores(result.lines) = <<<<Nothing, 0>>, Core(SpanC), Core(SpanA)>>

\* C12 second witness: the Urdu-aware pipeline got the same two spans from
\* its one region and returned them as they came, the lower one first.
C12_WitnessUnsorted ==
    /\ call.fn = "urdu" /\ outcome = "return"
    /\ Len(trace.regions) = 1
    /\ trace.reads[1] = Recognized(<<SpanA, SpanC>>)
    /\ call.min_confidence = 0
    /\ Cores(result.lines) = <<Core(SpanA), Core(SpanC)>>

\* C13 as stated: when extract_text_with_urdu_support has identified the
\* language ur, the recognizer of its loop over the regions has ur in its
\* language list.
C13_UrduReaderHasUrdu ==
    (call.fn = "urdu" /\ outcome = "return" /\ result.detected_language = "ur") =>
        /\ trace.reader # Nothing
        /\ "ur" \in trace.reader[1].lang_list

\* What the second get_reader() does obtain: the cached recognizer, which
\* serves the default languages, whatever language was identified.
C13_UrduReaderIsDefault ==
    (call.fn = "urdu" /\ outcome = "return") =>
        /\ trace.reader = OCR_READER
        /\ DEFAULT_LANGS \subseteq trace.reader[1].lang_list

\* A call C13 is about: the language ur was identified and the loop ran.
C13_UrduIdentified ==
    /\ call.fn = "urdu" /\ outcome = "return" /\ result.detected_language = "ur"
    /\ trace.reader = Some(Reader(1, DEFAULT_LANGS))
    /\ result.lines # <<>>

\* The regions on which no text-only call was made.
DetailOnly == {i \in 1..Len(trace.regions) : CallsOn(i) = <<ReadCall(i, 1, TRUE)>>}

RECURSIVE SumOver(_, _)
SumOver(S, f) ==
    IF S = {} THEN 0
    ELSE LET x == CHOOSE y \in S : TRUE IN f[x] + SumOver(S \ {x}, f)

\* The lines that come from the detail call: those with a confidence.
LinesWithConf == {i \in 1..Len(result.lines) : result.lines[i].conf # Nothing}

\* C14 as stated: in the result of extract_text_whatsapp_aware, whatever the
\* detail path and the retry of each region did, raw_text is the join with
\* single spaces of the texts of `lines` in order, and a region gives
\* `lines` either its accepted detail spans or one retry span: the lines
\* with a confidence are the accepted spans of the regions that were not
\* retried.
C14_RawTextIsJoinOfLines ==
    (call.fn = "whatsapp" /\ outcome = "return") =>
        /\ result.raw_text = SpaceJoin(TextsOf(result.lines))
        /\ Cardinality(LinesWithConf) =
              SumOver(DetailOnly, [i \in 1..Len(trace.regions) |-> Len(AcceptedOf(i))])

\* Every text the detail calls returned is a str.
AllTextsAreStr ==
    \A i \in 1..Len(trace.reads) : \A j \in 1..Len(trace.reads[i].spans) :
        IsStr(trace.reads[i].spans[j].text)

\* C14 for recognizers that return only str texts.
C14_JoinOfLinesWhenStr ==
    (call.fn = "whatsapp" /\ outcome = "return" /\ AllTextsAreStr) =>
        /\ result.raw_text = SpaceJoin(TextsOf(result.lines))
        /\ Cardinality(LinesWithConf) =
              SumOver(DetailOnly, [i \in 1..Len(trace.regions) |-> Len(AcceptedOf(i))])

\* A call C14 is about whose result is as C14 says: two regions, a retry line
\* and two detail spans, and raw_text "t c a".
C14_Joined ==
    /\ call.fn = "whatsapp" /\ outcome = "return"
    /\ trace.reads = <<Retried(TRUE, <<<<116>>>>), Recognized(<<SpanC, SpanA>>)>>
    /\ result.raw_text = <<116, 32, 99, 32, 97>>
    /\ Len(result.lines) = 3

\* The call that departs from C14: the one region gave `lines` its detail
\* span and a retry span, and raw_text only the retry text.
C14_BothDetailAndRetry ==
    /\ call.fn = "whatsapp" /\ outcome = "return"
    /\ trace.reads = <<Unjoinable(<<SpanN>>, TRUE, <<<<116>>>>)>>
    /\ Len(result.lines) = 2
    /\ result.lines[1].conf = Some(3) /\ result.lines[2].conf = Nothing
    /\ result.raw_text = <<116>>

====
